---- MODULE Spec2Model ----
(***************************************************************************)
(* Footprint cache of the isucon5-qualify Go web application.              *)
(*                                                                         *)
(* Two programs share a MySQL table (footprints) and a Redis server:       *)
(*   - the seed program  (src/seed.go:1-235), which fills the sorted sets  *)
(*     footprints:user_id:<id> from the table and replays the AOF file;    *)
(*   - the web application (src/seed.go:428-1350), whose request handlers  *)
(*     insert footprints, update the sorted sets and read them.            *)
(*                                                                         *)
(* Time.  footprints.created_at has a resolution of one second, so every   *)
(* instant the programs handle is a whole number of seconds after the Unix *)
(* epoch.  An instant is the record [giga |-> g, sec |-> s] standing for   *)
(* g * 10^9 + s seconds (0 <= s < 10^9).  The int64 nanosecond counts of   *)
(* the code (UnixNano, the sorted-set scores) are carried divided by 10^9, *)
(* which is exact for whole seconds.                                       *)
(***************************************************************************)
EXTENDS Integers, Sequences, FiniteSets, TLC

\* ---------------------------------------------------------------- bounds
NumUsers == 3
MaxT == 2
MaxRows == 2
NumWorkers == 2
MaxInserts == 1
MaxLimit == 2

\* A timestamp of the contest's day (2015-09-26 00:00:00 UTC), in seconds.
ProdT == 1443225600

Users == 1..NumUsers
Times == 1..MaxT
AllTimes == Times \cup {ProdT}

\* ------------------------------------------------------------- time.Time
Giga == 1000000000

\* time.Unix(0, nano): the instant nano nanoseconds after the epoch.
TimeUnixNano(nano) == [giga |-> nano \div Giga, sec |-> nano % Giga]

\* time.Unix(sec, 0) where sec is a nanosecond count: that many SECONDS
\* after the epoch, i.e. 10^9 times later than the instant it came from.
TimeUnixSec(nano) == [giga |-> nano, sec |-> 0]

\* Time.UnixNano(), for the instants of the footprints table.
UnixNano(t) == t.giga * Giga + t.sec

\* The instant a created_at column value (seconds) scans into.
ScanTime(s) == TimeUnixNano(s)

\* Time.MarshalJSON fails when the year is outside [0,9999]; year 10000
\* starts 253402300800 seconds after the epoch.
YearLimitGiga == 253
YearLimitSec == 402300800
YearOutOfRange(t) ==
    \/ t.giga > YearLimitGiga
    \/ t.giga = YearLimitGiga /\ t.sec >= YearLimitSec

\* The zero time.Time (January 1, year 1).
ZeroTime == [giga |-> -63, sec |-> 864403200]

TimeLess(a, b) == \/ a.giga < b.giga
                  \/ a.giga = b.giga /\ a.sec < b.sec

\* ------------------------------------------------------ JSON of Footprint
MarshalError == <<"error">>

\* json.Marshal(Footprint): the member bytes, or an error.
Marshal(fp) ==
    IF YearOutOfRange(fp.CreatedAt) \/ YearOutOfRange(fp.UpdatedAt)
    THEN MarshalError
    ELSE <<"json", fp.UserID, fp.OwnerID, fp.CreatedAt, fp.UpdatedAt>>

\* A member that is not the JSON of a Footprint: the text of one cut short
\* before its closing brace.
Cut(m) == <<"cut", m[2], m[3], m[4], m[5]>>

Decodable(m) == m[1] = "json"

\* json.Unmarshal(m, &fp) into fp := Footprint{}, the error dropped: text
\* that is not valid JSON leaves fp as it was, the zero Footprint.
Unmarshal(m) ==
    IF Decodable(m)
    THEN [UserID |-> m[2], OwnerID |-> m[3], CreatedAt |-> m[4], UpdatedAt |-> m[5]]
    ELSE [UserID |-> 0, OwnerID |-> 0, CreatedAt |-> ZeroTime, UpdatedAt |-> ZeroTime]

\* Decimal digits of a natural number, most significant first.
RECURSIVE Digits(_)
Digits(n) == IF n < 10 THEN <<n>> ELSE Append(Digits(n \div 10), n % 10)

\* Byte order of two numbers printed in decimal and followed by ',' (which
\* sorts before every digit): plain lexicographic order of the digit strings.
RECURSIVE SeqLess(_, _)
SeqLess(a, b) ==
    IF a = <<>> THEN b # <<>>
    ELSE IF b = <<>> THEN FALSE
    ELSE IF Head(a) # Head(b) THEN Head(a) < Head(b)
    ELSE SeqLess(Tail(a), Tail(b))

DecLess(a, b) == SeqLess(Digits(a), Digits(b))

\* Byte order of two members: Redis orders equal scores by memcmp of the
\* members; the JSON fields appear in struct order.
MemberLess(m1, m2) ==
    IF m1[2] # m2[2] THEN DecLess(m1[2], m2[2])
    ELSE IF m1[3] # m2[3] THEN DecLess(m1[3], m2[3])
    ELSE IF m1[4] # m2[4] THEN TimeLess(m1[4], m2[4])
    ELSE IF m1[5] # m2[5] THEN TimeLess(m1[5], m2[5])
    ELSE ~Decodable(m1) /\ Decodable(m2)

\* ------------------------------------------------------ Redis sorted sets
\* A sorted set is a set of [member, score] with no member twice.
EntryLess(e1, e2) ==
    \/ e1.score < e2.score
    \/ e1.score = e2.score /\ MemberLess(e1.member, e2.member)

\* ZINCRBY in the place of ZADD: the score of a member already in the set
\* is added to, not replaced.
ZAddIncrements(z, score, member) ==
    LET old == {e \in z : e.member = member}
        sum == IF old = {} THEN score ELSE (CHOOSE e \in old : TRUE).score + score
    IN  (z \ old) \cup {[member |-> member, score |-> sum]}

\* ZADD key score member
ZAdd(z, score, member) ==
    {e \in z : e.member # member} \cup {[member |-> member, score |-> score]}

RECURSIVE SortEntries(_)
SortEntries(z) ==
    IF z = {} THEN <<>>
    ELSE LET first == CHOOSE e \in z : \A o \in z \ {e} : EntryLess(e, o)
         IN  <<first>> \o SortEntries(z \ {first})

\* ZRANGE key start stop: negative indexes count from the end.
ZRange(z, start, stop) ==
    LET all == SortEntries(z)
        n == Len(all)
        s0 == IF start < 0 THEN n + start ELSE start
        s == IF s0 < 0 THEN 0 ELSE s0
        e0 == IF stop < 0 THEN n + stop ELSE stop
        e == IF e0 >= n THEN n - 1 ELSE e0
    IN  IF s > e \/ s >= n THEN <<>>
        ELSE [i \in 1..(e - s + 1) |-> all[s + i].member]

\* ------------------------------------------------------------ the stores
VARIABLES
    footprints,  \* MySQL table footprints: sequence of rows in id order
    nextId,      \* its AUTO_INCREMENT counter
    redis,       \* Redis: user id |-> sorted set footprints:user_id:<id>
    aof,         \* /var/lib/redis/appendonly.aof: [exists, cmds]
    aofOn,       \* Redis config appendonly
    spc,         \* seed program: position in main
    hist,        \* history: the table the last rebuild scanned and the cache
                 \* the first rebuild over that table left
    alive,       \* web application: the process runs (FALSE after log.Fatalf)
    users,       \* web application: the users map is loaded (nil at start)
    loadAofEnv,  \* web application: environment variable ISUCON5_REDIS_LOAD_AOF
    wk           \* web application: the request each worker goroutine serves

vars == <<footprints, nextId, redis, aof, aofOn, spc, hist, alive, users,
          loadAofEnv, wk>>

seedVars == <<spc, hist>>
webVars == <<alive, users, loadAofEnv, wk>>

Workers == 1..NumWorkers

\* A goroutine of net/http with no request.
IdleWorker ==
    [pc |-> "idle", userId |-> 0, inserted |-> <<>>, footprint |-> <<>>,
     fps |-> <<>>, limit |-> 0, resp |-> <<>>]

WebOff ==
    /\ alive = TRUE
    /\ users = FALSE
    /\ loadAofEnv = ""
    /\ wk = [w \in Workers |-> IdleWorker]

\* User ids that name a sorted set; 0 is the id of the zero User value.
Keys == {0} \cup Users

EmptyRedis == [k \in Keys |-> {}]

\* A row of footprints (created_at in seconds).
Row(id, user, owner, t) ==
    [id |-> id, user_id |-> user, owner_id |-> owner, created_at |-> t]

\* rows.Scan(&fp.UserID, &fp.OwnerID, &fp.CreatedAt)
ScanFootprint(row) ==
    [UserID |-> row.user_id, OwnerID |-> row.owner_id,
     CreatedAt |-> ScanTime(row.created_at), UpdatedAt |-> ZeroTime]

FootprintGroup(fp) == <<fp.UserID, fp.OwnerID>>

\* a.UnixNano() > b.UnixNano().  UnixNano of the zero time wraps around to
\* -6795364578871345152, which is below the UnixNano of every row.
UnixNanoGreater(a, b) ==
    IF b = ZeroTime THEN a # ZeroTime
    ELSE IF a = ZeroTime THEN FALSE
    ELSE UnixNano(a) > UnixNano(b)

\* maxCreatedAt[group], the zero time for a missing key.
MapGet(m, group) == IF group \in DOMAIN m THEN m[group] ELSE ZeroTime

MapPut(m, group, t) ==
    [g \in DOMAIN m \cup {group} |-> IF g = group THEN t ELSE m[g]]

\* First loop of InitializeFootprints: the latest created_at of every group.
RECURSIVE MaxCreatedAt(_, _, _)
MaxCreatedAt(fps, i, max) ==
    IF i > Len(fps) THEN max
    ELSE LET fp == fps[i]
             group == FootprintGroup(fp)
         IN  IF UnixNanoGreater(fp.CreatedAt, MapGet(max, group))
             THEN MaxCreatedAt(fps, i + 1, MapPut(max, group, fp.CreatedAt))
             ELSE MaxCreatedAt(fps, i + 1, max)

\* A ZADD as Redis logs it.
ZAddCmd(key, score, member) == [key |-> key, score |-> score, member |-> member]

\* cache.Do("ZADD", key, score, member): the reply is dropped.
DoZAdd(st, cmd) ==
    [st EXCEPT !.redis = [st.redis EXCEPT ![cmd.key] = ZAdd(@, cmd.score, cmd.member)],
               !.log = Append(@, cmd)]

\* Second loop of InitializeFootprints: one ZADD for the first footprint of
\* every group, carrying the group's latest created_at.  st.errs holds the
\* positions whose cache.Do fails: the error is not looked at, the entry is
\* not written and the loop goes on.
RECURSIVE WriteGroups(_, _, _, _, _)
WriteGroups(fps, i, isNotRequired, max, st) ==
    IF i > Len(fps) \/ st.fatal THEN st
    ELSE LET fp == fps[i]
             group == FootprintGroup(fp)
             tmpFp == [UserID |-> fp.UserID, OwnerID |-> fp.OwnerID,
                       CreatedAt |-> max[group], UpdatedAt |-> max[group]]
             tmpFpJson == Marshal(tmpFp)
         IN  IF group \in isNotRequired
             THEN WriteGroups(fps, i + 1, isNotRequired, max, st)
             ELSE IF tmpFpJson = MarshalError
             THEN [st EXCEPT !.fatal = TRUE]
             ELSE IF i \in st.errs
             THEN WriteGroups(fps, i + 1, isNotRequired \cup {group}, max, st)
             ELSE WriteGroups(fps, i + 1, isNotRequired \cup {group}, max,
                      DoZAdd(st, ZAddCmd(tmpFp.UserID, -UnixNano(tmpFp.CreatedAt), tmpFpJson)))

\* InitializeFootprints when the result set ends after `scanned` rows
\* (rows.Next() is false on a read error as at the end, rows.Err() is not
\* consulted) and the ZADDs at the positions errs fail.
InitializeFootprintsErr(rows, cache, scanned, errs) ==
    LET fps == [i \in 1..scanned |-> ScanFootprint(rows[i])]
        max == MaxCreatedAt(fps, 1, << >>)
    IN  WriteGroups(fps, 1, {}, max,
                    [redis |-> cache, log |-> <<>>, fatal |-> FALSE, errs |-> errs])

\* InitializeFootprints over the rows of the table and the cache as it is,
\* every statement and command succeeding.
InitializeFootprints(rows, cache) ==
    InitializeFootprintsErr(rows, cache, Len(rows), {})

\* --------------------------------------------------- AddFootprintCache
\* The argument markFootprint builds from a row of the table.
VisitFootprint(row) ==
    [ScanFootprint(row) EXCEPT !.UpdatedAt = ScanTime(row.created_at)]

\* The loop of AddFootprintCache adding the created_at of the visitor's
\* members up instead of taking the latest.
RECURSIVE AfcSumCreatedAt(_, _, _, _)
AfcSumCreatedAt(fps, i, footprint, maxCreatedAt) ==
    IF i > Len(fps) THEN maxCreatedAt
    ELSE LET fp == Unmarshal(fps[i])
         IN  IF fp.OwnerID = footprint.OwnerID /\ fp.CreatedAt # ZeroTime
             THEN AfcSumCreatedAt(fps, i + 1, footprint,
                                  maxCreatedAt + UnixNano(fp.CreatedAt))
             ELSE AfcSumCreatedAt(fps, i + 1, footprint, maxCreatedAt)

\* The loop of AddFootprintCache over the members ZRANGE returned: the
\* argument's UnixNano, or a later created_at another member of the same
\* visitor (owner_id) carries.  UnixNano of the zero time (a member that did
\* not decode) is negative, below every maximum.
RECURSIVE AfcMaxCreatedAt(_, _, _, _)
AfcMaxCreatedAt(fps, i, footprint, maxCreatedAt) ==
    IF i > Len(fps) THEN maxCreatedAt
    ELSE LET fp == Unmarshal(fps[i])
         IN  IF /\ fp.OwnerID = footprint.OwnerID
                /\ fp.CreatedAt # ZeroTime
                /\ UnixNano(fp.CreatedAt) > maxCreatedAt
             THEN AfcMaxCreatedAt(fps, i + 1, footprint, UnixNano(fp.CreatedAt))
             ELSE AfcMaxCreatedAt(fps, i + 1, footprint, maxCreatedAt)

\* footprint.CreatedAt, footprint.UpdatedAt =
\*     time.Unix(0, maxCreatedAt), time.Unix(maxCreatedAt, 0)
AfcStamp(footprint, maxCreatedAt) ==
    [footprint EXCEPT !.CreatedAt = TimeUnixNano(maxCreatedAt),
                      !.UpdatedAt = TimeUnixSec(maxCreatedAt)]

\* AfcWrite with the minus sign of the score lost.
AfcWritePositiveScore(st, footprint, fps) ==
    LET maxCreatedAt == AfcMaxCreatedAt(fps, 1, footprint, UnixNano(footprint.CreatedAt))
        footprintJson == Marshal(AfcStamp(footprint, maxCreatedAt))
    IN  IF footprintJson = MarshalError
        THEN [st EXCEPT !.fatal = TRUE]
        ELSE DoZAdd(st, ZAddCmd(footprint.UserID, maxCreatedAt, footprintJson))

\* The second half of AddFootprintCache, from the members read: a fatal
\* exit when the footprint does not marshal, else one ZADD.
AfcWrite(st, footprint, fps) ==
    LET maxCreatedAt == AfcMaxCreatedAt(fps, 1, footprint, UnixNano(footprint.CreatedAt))
        footprintJson == Marshal(AfcStamp(footprint, maxCreatedAt))
    IN  IF footprintJson = MarshalError
        THEN [st EXCEPT !.fatal = TRUE]
        ELSE DoZAdd(st, ZAddCmd(footprint.UserID, -maxCreatedAt, footprintJson))

\* AddFootprintCache run without interruption on the cache.
AddFootprintCache(cache, footprint) ==
    AfcWrite([redis |-> cache, log |-> <<>>, fatal |-> FALSE], footprint,
             ZRange(cache[footprint.UserID], 0, -1))

\* ------------------------------------------------ FetchFootprintsCache
SecondsPerDay == 86400
JstOffset == 32400

\* time.Date(y, m, d, 0, 0, 0, 0, jst) of the day of t: midnight of that
\* day in the zone nine hours east of UTC.
DateOf(t) ==
    LET secOfDay == (t.giga * (Giga % SecondsPerDay) + t.sec) % SecondsPerDay
        s == t.sec - secOfDay - JstOffset
    IN  IF s < 0 THEN [giga |-> t.giga - 1, sec |-> s + Giga]
        ELSE [giga |-> t.giga, sec |-> s]

RECURSIVE FetchLoop(_, _)
FetchLoop(fps, i) ==
    IF i > Len(fps) THEN <<>>
    ELSE LET fp == Unmarshal(fps[i])
         IN  <<[fp EXCEPT !.CreatedAt = DateOf(fp.CreatedAt)]>> \o FetchLoop(fps, i + 1)

\* FetchFootprintsCache(userId, limit): ZRANGE 0 limit-1, every member
\* decoded and its created_at cut down to the date.
FetchFootprintsCache(cache, userId, limit) ==
    FetchLoop(ZRange(cache[userId], 0, limit - 1), 1)

\* A worker holding the answer of FetchFootprintsCache, about to render it.
Fetched(userId, limit, cache) ==
    [IdleWorker EXCEPT !.pc = "render", !.userId = userId, !.limit = limit,
                       !.fps = ZRange(cache[userId], 0, limit - 1),
                       !.resp = FetchFootprintsCache(cache, userId, limit)]

\* ------------------------------------------------------ append-only file
\* Keys of a set of naturals in ascending order.
RECURSIVE SortKeys(_)
SortKeys(ks) ==
    IF ks = {} THEN <<>>
    ELSE LET k == CHOOSE x \in ks : \A y \in ks : x <= y
         IN  <<k>> \o SortKeys(ks \ {k})

RECURSIVE DumpKeys(_, _)
DumpKeys(cache, ks) ==
    IF ks = <<>> THEN <<>>
    ELSE LET z == SortEntries(cache[Head(ks)])
         IN  [i \in 1..Len(z) |-> ZAddCmd(Head(ks), z[i].score, z[i].member)]
             \o DumpKeys(cache, Tail(ks))

\* The file left empty when appendonly is switched on: the data set held at
\* that moment is not dumped.
RewriteAofEmpty(cache) == <<>>

\* The file Redis writes when appendonly is switched on: the commands that
\* rebuild the data set it holds at that moment.
RewriteAof(cache) == DumpKeys(cache, SortKeys(Keys))

\* redis-cli --pipe < appendonly.aof: the commands of the file, in order.
RECURSIVE ReplayAof(_, _)
ReplayAof(cache, cmds) ==
    IF cmds = <<>> THEN cache
    ELSE ReplayAof([cache EXCEPT ![Head(cmds).key] =
                        ZAdd(@, Head(cmds).score, Head(cmds).member)],
                   Tail(cmds))

\* What a write does to the file.
LogAof(file, on, cmds) ==
    IF on THEN [file EXCEPT !.cmds = @ \o cmds] ELSE file

\* ---------------------------------------------------- the seed program
\* Rows and timestamps a visit can produce: nobody visits themselves.
VisitRows(id, ts) ==
    {Row(id, u, o, t) : <<u, o, t>> \in {x \in Users \X Users \X ts : x[1] # x[2]}}

SeedInit ==
    /\ footprints = <<>>
    /\ nextId = 1
    /\ redis = EmptyRedis
    /\ aof = [exists |-> FALSE, cmds |-> <<>>]
    /\ aofOn = FALSE
    /\ spc = "start"
    /\ hist = [db |-> <<>>, cache |-> EmptyRedis, valid |-> FALSE, rerun |-> FALSE]
    /\ WebOff

\* Another client of the table, between two runs of the seed program:
\* INSERT INTO footprints (user_id,owner_id).
InsertRow ==
    /\ spc \in {"start", "done", "fatal"}
    /\ Len(footprints) < MaxRows
    /\ \E row \in VisitRows(nextId, Times) : footprints' = Append(footprints, row)
    /\ nextId' = nextId + 1
    /\ UNCHANGED <<redis, aof, aofOn, seedVars, webVars>>

\* redis-cli config set appendonly yes
SeedAppendOnlyYes ==
    /\ spc = "start"
    /\ aofOn' = TRUE
    /\ aof' = [exists |-> TRUE, cmds |-> RewriteAof(redis)]
    /\ spc' = "initialize"
    /\ UNCHANGED <<footprints, nextId, redis, hist, webVars>>

SeedInitializeFootprints ==
    /\ spc = "initialize"
    /\ LET st == InitializeFootprints(footprints, redis)
           again == /\ hist.valid
                    /\ hist.db = footprints
                    /\ hist.cache = redis
       IN  /\ redis' = st.redis
           /\ aof' = LogAof(aof, aofOn, st.log)
           /\ spc' = IF st.fatal THEN "fatal" ELSE "appendonly_no"
           /\ hist' = [db |-> footprints,
                       cache |-> IF again THEN hist.cache ELSE st.redis,
                       valid |-> TRUE,
                       rerun |-> again]
    /\ UNCHANGED <<footprints, nextId, aofOn, webVars>>

\* redis-cli config set appendonly no
SeedAppendOnlyNo ==
    /\ spc = "appendonly_no"
    /\ aofOn' = FALSE
    /\ spc' = "load"
    /\ UNCHANGED <<footprints, nextId, redis, aof, hist, webVars>>

\* LoadRedisAof of the seed program with the flushall left out.
SeedLoadRedisAofNoFlush ==
    /\ spc = "load"
    /\ IF aof.exists
       THEN /\ redis' = ReplayAof(redis, aof.cmds)
            /\ aof' = LogAof(aof, aofOn, aof.cmds)
            /\ spc' = "done"
       ELSE /\ redis' = redis
            /\ aof' = aof
            /\ spc' = "fatal"
    /\ hist' = [hist EXCEPT !.rerun = FALSE]
    /\ UNCHANGED <<footprints, nextId, aofOn, webVars>>

\* LoadRedisAof of the seed program: flushall, then the file or a fatal exit.
SeedLoadRedisAof ==
    /\ spc = "load"
    /\ IF aof.exists
       THEN /\ redis' = ReplayAof(EmptyRedis, aof.cmds)
            /\ aof' = LogAof(LogAof(aof, aofOn, <<"flushall">>), aofOn, aof.cmds)
            /\ spc' = "done"
       ELSE /\ redis' = EmptyRedis
            /\ aof' = LogAof(aof, aofOn, <<"flushall">>)
            /\ spc' = "fatal"
    /\ hist' = [hist EXCEPT !.rerun = FALSE]
    /\ UNCHANGED <<footprints, nextId, aofOn, webVars>>

\* The seed program is started again.
SeedRestart ==
    /\ spc \in {"done", "fatal"}
    /\ spc' = "start"
    /\ UNCHANGED <<footprints, nextId, redis, aof, aofOn, hist, webVars>>

SeedNext ==
    \/ InsertRow
    \/ SeedAppendOnlyYes
    \/ SeedInitializeFootprints
    \/ SeedAppendOnlyNo
    \/ SeedLoadRedisAof
    \/ SeedRestart

SeedSpec == SeedInit /\ [][SeedNext]_vars

\* --------------------------------------------------------------- views
\* The (visitor, timestamp) pairs a profile's sorted set shows, in ZRANGE order.
ViewOf(cache, p) ==
    LET ms == ZRange(cache[p], 0, -1)
    IN  [i \in 1..Len(ms) |->
            <<Unmarshal(ms[i]).OwnerID, UnixNano(Unmarshal(ms[i]).CreatedAt)>>]

SeqRange(s) == {s[i] : i \in 1..Len(s)}

\* The visitors of a profile in the table, and the latest visit of each.
VisitorsOf(rows, p) == {r.owner_id : r \in {x \in SeqRange(rows) : x.user_id = p}}

LatestVisit(rows, p, v) ==
    CHOOSE t \in AllTimes :
        /\ \E r \in SeqRange(rows) : r.user_id = p /\ r.owner_id = v /\ r.created_at = t
        /\ \A r \in SeqRange(rows) :
               (r.user_id = p /\ r.owner_id = v) => r.created_at <= t

CanonicalVisits(rows, p) == {<<v, LatestVisit(rows, p, v)>> : v \in VisitorsOf(rows, p)}

\* A view is canonical for the rows: one entry per visitor, its latest visit.
IsCanonical(cache, rows, p) ==
    /\ SeqRange(ViewOf(cache, p)) = CanonicalVisits(rows, p)
    /\ Len(ViewOf(cache, p)) = Cardinality(VisitorsOf(rows, p))

\* C1: after InitializeFootprints every profile's view holds exactly one
\* entry per distinct visitor of the profile, at the visitor's latest
\* created_at (hist.db is the table as InitializeFootprints scanned it).
C1_RebuildIsCanonical ==
    spc = "appendonly_no" => \A p \in Users : IsCanonical(redis, hist.db, p)

\* C8: when InitializeFootprints runs again over an unchanged table and a
\* cache still as the first run left it, every view (members and scores)
\* stays as it was after the first run.
C8_RebuildTwiceSameViews ==
    hist.rerun => redis = hist.cache

C8_Witness ==
    /\ hist.rerun
    /\ spc = "appendonly_no"
    /\ \E p \in Users : Cardinality(redis[p]) >= 2

\* ------------------------------------- AddFootprintCache, call after call
\* Records are written to the table and handed to AddFootprintCache one at
\* a time, in any order of their timestamps, starting from an empty cache.
ApplyInit ==
    /\ footprints = <<>>
    /\ nextId = 1
    /\ redis = EmptyRedis
    /\ aof = [exists |-> FALSE, cmds |-> <<>>]
    /\ aofOn = FALSE
    /\ spc = "off"
    /\ hist = [db |-> <<>>, cache |-> EmptyRedis, valid |-> FALSE, rerun |-> FALSE]
    /\ WebOff

ApplyVisit ==
    /\ alive
    /\ Len(footprints) < MaxRows
    /\ \E row \in VisitRows(nextId, AllTimes) :
          LET st == AddFootprintCache(redis, VisitFootprint(row))
          IN  /\ footprints' = Append(footprints, row)
              /\ redis' = st.redis
              /\ aof' = LogAof(aof, aofOn, st.log)
              /\ alive' = ~st.fatal
    /\ nextId' = nextId + 1
    /\ UNCHANGED <<aofOn, seedVars, users, loadAofEnv, wk>>

\* FetchFootprintsCache called on the cache as it is, with any limit.
ApplyQuery ==
    /\ alive
    /\ \E userId \in Users, limit \in 0..MaxLimit :
          wk' = [wk EXCEPT ![1] = Fetched(userId, limit, redis)]
    /\ UNCHANGED <<footprints, nextId, redis, aof, aofOn, seedVars, alive,
                   users, loadAofEnv>>

ApplyNext == ApplyVisit \/ ApplyQuery

ApplySpec == ApplyInit /\ [][ApplyNext]_vars

\* C2: after any sequence of AddFootprintCache calls a profile's view holds
\* exactly one entry per distinct visitor applied for it, at the latest
\* timestamp applied for that visitor.
C2_ApplyKeepsCanonical ==
    alive => \A p \in Users : IsCanonical(redis, footprints, p)

\* C3: the records applied one by one through AddFootprintCache, from an
\* empty cache, leave in every profile's view the same set of (visitor,
\* timestamp) entries as InitializeFootprints over the same records.
C3_ApplyEqualsRebuild ==
    alive => \A p \in Users :
        SeqRange(ViewOf(redis, p)) =
            SeqRange(ViewOf(InitializeFootprints(footprints, EmptyRedis).redis, p))

\* C6: FetchFootprintsCache(userId, limit) returns at most limit entries,
\* for every limit >= 0.
C6_AtMostLimit ==
    \A w \in Workers : wk[w].pc = "render" => Len(wk[w].resp) <= wk[w].limit

\* ------------------------------------------------- the web application
\* DELETE FROM footprints WHERE id > 500000
SeedMaxId == 500000

DeleteNewRows(rows) == LET keep(r) == r.id <= SeedMaxId IN SelectSeq(rows, keep)

\* The tables of the contest's data set: ids from 1.
SeedTables ==
    UNION {[1..n -> VisitRows(0, AllTimes)] : n \in 0..(MaxRows - 1)}

WithIds(rows) == [i \in 1..Len(rows) |-> [rows[i] EXCEPT !.id = i]]

\* The web application starts: no request yet, users and salts not loaded.
\* Redis and the AOF file are as the seed program left them, or untouched.
WebInit ==
    /\ \E rows \in SeedTables, seeded \in BOOLEAN :
          LET st == InitializeFootprints(WithIds(rows), EmptyRedis)
          IN  /\ footprints = WithIds(rows)
              /\ redis = IF seeded THEN st.redis ELSE EmptyRedis
              /\ aof = IF seeded THEN [exists |-> TRUE, cmds |-> st.log]
                       ELSE [exists |-> FALSE, cmds |-> <<>>]
    /\ nextId = SeedMaxId + 1
    /\ aofOn = FALSE
    /\ spc = "off"
    /\ hist = [db |-> <<>>, cache |-> EmptyRedis, valid |-> FALSE, rerun |-> FALSE]
    /\ alive = TRUE
    /\ users = FALSE
    /\ loadAofEnv \in {"", "1"}
    /\ wk = [w \in Workers |-> IdleWorker]

\* getCurrentUser: users[userID] of the session's user id; the zero User
\* (ID 0) as long as the users map is nil.
CurrentUserId(sessionUserId) == IF users THEN sessionUserId ELSE 0

Latest(rows) ==
    IF rows = <<>> THEN 0
    ELSE CHOOSE t \in AllTimes :
            /\ \E i \in 1..Len(rows) : rows[i].created_at = t
            /\ \A i \in 1..Len(rows) : rows[i].created_at <= t

\* getUserFromAccount: the user of the account in the URL; the zero User
\* (ID 0) when no user has that account, as when the users map is nil.
OwnerId(id) == IF users THEN id ELSE 0

\* markFootprint without its test user.ID != id: every view of a profile is
\* recorded, the owner's own included.
MarkInsertAlways(w) ==
    /\ alive /\ wk[w].pc = "idle"
    /\ Len(footprints) < MaxRows
    /\ nextId <= SeedMaxId + MaxInserts
    /\ \E session \in Users, id \in Users, now \in AllTimes :
          /\ now >= Latest(footprints)
          /\ footprints' = Append(footprints,
                                 Row(nextId, OwnerId(id), CurrentUserId(session), now))
          /\ wk' = [wk EXCEPT ![w] = [IdleWorker EXCEPT !.pc = "mf_select",
                        !.userId = CurrentUserId(session),
                        !.inserted = Row(nextId, OwnerId(id), CurrentUserId(session), now),
                        !.footprint = [UserID |-> OwnerId(id),
                                       OwnerID |-> CurrentUserId(session)]]]
    /\ nextId' = nextId + 1
    /\ UNCHANGED <<redis, aof, aofOn, seedVars, alive, users, loadAofEnv>>

\* markFootprint, first statement: INSERT INTO footprints (user_id,owner_id)
\* when the visitor is not the owner, created_at being CURRENT_TIMESTAMP;
\* nothing at all when the visitor is the owner ("mf_skip").
MarkInsert(w) ==
    /\ alive /\ wk[w].pc = "idle"
    /\ \E session \in Users, id \in Users, now \in AllTimes :
          IF CurrentUserId(session) # OwnerId(id)
          THEN /\ Len(footprints) < MaxRows
               /\ nextId <= SeedMaxId + MaxInserts
               /\ now >= Latest(footprints)
               /\ footprints' = Append(footprints,
                                      Row(nextId, OwnerId(id), CurrentUserId(session), now))
               /\ wk' = [wk EXCEPT ![w] = [IdleWorker EXCEPT !.pc = "mf_select",
                             !.userId = CurrentUserId(session),
                             !.inserted = Row(nextId, OwnerId(id), CurrentUserId(session), now),
                             !.footprint = [UserID |-> OwnerId(id),
                                            OwnerID |-> CurrentUserId(session)]]]
               /\ nextId' = nextId + 1
          ELSE /\ wk' = [wk EXCEPT ![w] = [IdleWorker EXCEPT !.pc = "mf_skip",
                             !.userId = CurrentUserId(session)]]
               /\ UNCHANGED <<footprints, nextId>>
    /\ UNCHANGED <<redis, aof, aofOn, seedVars, alive, users, loadAofEnv>>

\* markFootprint, second statement: SELECT ... WHERE user_id = ? AND
\* owner_id = ?, of which QueryRow scans one row, whichever comes first; no
\* row is sql.ErrNoRows, a panic that myHandler recovers ("http500").
MarkSelect(w) ==
    /\ alive /\ wk[w].pc = "mf_select"
    /\ LET match == {i \in 1..Len(footprints) :
                        /\ footprints[i].user_id = wk[w].footprint.UserID
                        /\ footprints[i].owner_id = wk[w].footprint.OwnerID}
       IN  IF match = {}
           THEN wk' = [wk EXCEPT ![w].pc = "http500"]
           ELSE \E i \in match :
                   wk' = [wk EXCEPT ![w].pc = "afc_zrange",
                                    ![w].footprint = VisitFootprint(footprints[i])]
    /\ UNCHANGED <<footprints, nextId, redis, aof, aofOn, seedVars, alive,
                   users, loadAofEnv>>

\* AddFootprintCache, first half: ZRANGE key 0 -1.  redisConn.Do returns the
\* members, or an error (the connection to the server is lost; redisConn is
\* one connection used by all goroutines without a lock, so the reply read
\* can be another command's); an error is log.Fatalf.
AfcZRange(w) ==
    /\ alive /\ wk[w].pc = "afc_zrange"
    /\ \/ /\ wk' = [wk EXCEPT ![w].pc = "afc_zadd",
                              ![w].fps = ZRange(redis[wk[w].footprint.UserID], 0, -1)]
          /\ alive' = alive
       \/ /\ alive' = FALSE
          /\ wk' = [wk EXCEPT ![w].pc = "fatalf_zrange"]
    /\ UNCHANGED <<footprints, nextId, redis, aof, aofOn, seedVars, users, loadAofEnv>>

\* AddFootprintCache, second half: the maximum, json.Marshal and ZADD.
AfcZAdd(w) ==
    /\ alive /\ wk[w].pc = "afc_zadd"
    /\ LET st == AfcWrite([redis |-> redis, log |-> <<>>, fatal |-> FALSE],
                          wk[w].footprint, wk[w].fps)
       IN  /\ redis' = st.redis
           /\ aof' = LogAof(aof, aofOn, st.log)
           /\ alive' = ~st.fatal
           /\ wk' = [wk EXCEPT ![w].pc = IF st.fatal THEN "fatalf_marshal"
                                                       ELSE "mf_render"]
    /\ UNCHANGED <<footprints, nextId, aofOn, seedVars, users, loadAofEnv>>

\* GetIndex (limit 10) and GetFootprints (limit 50): FetchFootprintsCache of
\* the current user; an error of ZRANGE is log.Fatalf.
QueryLimits == {10, 50}

Query(w) ==
    /\ alive /\ wk[w].pc = "idle"
    /\ \/ /\ \E session \in Users, limit \in QueryLimits :
                wk' = [wk EXCEPT ![w] = Fetched(CurrentUserId(session), limit, redis)]
          /\ alive' = alive
       \/ /\ alive' = FALSE
          /\ wk' = [wk EXCEPT ![w].pc = "fatalf_fetch"]
    /\ UNCHANGED <<footprints, nextId, redis, aof, aofOn, seedVars, users, loadAofEnv>>

\* The response is written and the request ends: render of the footprints
\* (GetIndex, GetFootprints), render after markFootprint (GetProfile,
\* ListEntries, GetEntry), or http.Error with status 500 after a panic.
Render(w) ==
    /\ alive /\ wk[w].pc \in {"render", "mf_render", "mf_skip", "http500"}
    /\ wk' = [wk EXCEPT ![w] = IdleWorker]
    /\ UNCHANGED <<footprints, nextId, redis, aof, aofOn, seedVars, alive,
                   users, loadAofEnv>>

\* GetInitialize with a LoadRedisAof that does not look for the file: the
\* replay is started whether or not appendonly.aof exists.
GetInitializeWithoutStat(w) ==
    /\ alive /\ wk[w].pc = "idle"
    /\ footprints' = DeleteNewRows(footprints)
    /\ wk' = [wk EXCEPT ![w].pc = IF loadAofEnv = "" THEN "gi_replay" ELSE "gi_users"]
    /\ UNCHANGED <<nextId, redis, aof, aofOn, seedVars, alive, users, loadAofEnv>>

\* GetInitialize up to the start of redis-cli: the DELETEs, then
\* LoadRedisAof when ISUCON5_REDIS_LOAD_AOF is empty; LoadRedisAof is
\* log.Fatalf when the file is missing.
GetInitialize(w) ==
    /\ alive /\ wk[w].pc = "idle"
    /\ footprints' = DeleteNewRows(footprints)
    /\ IF loadAofEnv = ""
       THEN IF aof.exists
            THEN /\ wk' = [wk EXCEPT ![w].pc = "gi_replay"]
                 /\ alive' = alive
            ELSE /\ wk' = [wk EXCEPT ![w].pc = "fatalf_aof"]
                 /\ alive' = FALSE
       ELSE /\ wk' = [wk EXCEPT ![w].pc = "gi_users"]
            /\ alive' = alive
    /\ UNCHANGED <<nextId, redis, aof, aofOn, seedVars, users, loadAofEnv>>

\* LoadRedisAof of the web application: redis-cli --pipe < appendonly.aof,
\* onto the cache as it is.
GiReplay(w) ==
    /\ alive /\ wk[w].pc = "gi_replay"
    /\ redis' = ReplayAof(redis, aof.cmds)
    /\ aof' = LogAof(aof, aofOn, aof.cmds)
    /\ wk' = [wk EXCEPT ![w].pc = "gi_users"]
    /\ UNCHANGED <<footprints, nextId, aofOn, seedVars, alive, users, loadAofEnv>>

\* GetInitialize, the rest: the users and salts maps are loaded.
GiUsers(w) ==
    /\ alive /\ wk[w].pc = "gi_users"
    /\ users' = TRUE
    /\ wk' = [wk EXCEPT ![w] = IdleWorker]
    /\ UNCHANGED <<footprints, nextId, redis, aof, aofOn, seedVars, alive, loadAofEnv>>

Next ==
    \E w \in Workers :
        \/ MarkInsert(w)
        \/ MarkSelect(w)
        \/ AfcZRange(w)
        \/ AfcZAdd(w)
        \/ Query(w)
        \/ Render(w)
        \/ GetInitialize(w)
        \/ GiReplay(w)
        \/ GiUsers(w)

Spec == WebInit /\ [][Next]_vars

\* ------------------------------------- two AddFootprintCache calls at once
\* Two requests have inserted and selected their rows for the same profile
\* and visitor and now run AddFootprintCache, their Redis commands
\* interleaved in any order.
RaceInit ==
    /\ \E p \in Users, v \in Users, ts \in [Workers -> Times] :
          /\ p # v
          /\ footprints = [w \in Workers |-> Row(SeedMaxId + w, p, v, ts[w])]
          /\ wk = [w \in Workers |->
                      [IdleWorker EXCEPT !.pc = "afc_zrange", !.userId = v,
                           !.inserted = Row(SeedMaxId + w, p, v, ts[w]),
                           !.footprint = VisitFootprint(Row(SeedMaxId + w, p, v, ts[w]))]]
    /\ nextId = SeedMaxId + NumWorkers + 1
    /\ redis = EmptyRedis
    /\ aof = [exists |-> FALSE, cmds |-> <<>>]
    /\ aofOn = FALSE
    /\ spc = "off"
    /\ hist = [db |-> <<>>, cache |-> EmptyRedis, valid |-> FALSE, rerun |-> FALSE]
    /\ alive = TRUE
    /\ users = TRUE
    /\ loadAofEnv = ""

RaceNext == \E w \in Workers : AfcZRange(w) \/ AfcZAdd(w) \/ Render(w)

RaceSpec == RaceInit /\ [][RaceNext]_vars

AllIdle == \A w \in Workers : wk[w].pc = "idle"

\* C4: two concurrent AddFootprintCache calls for the same profile and
\* visitor with different timestamps, however their ZRANGE and ZADD steps
\* interleave, leave the visitor's entry at the later timestamp and no entry
\* at the earlier one.
C4_RaceLeavesLatestOnly ==
    (alive /\ AllIdle) =>
        \A a \in Workers, b \in Workers :
            footprints[a].created_at < footprints[b].created_at =>
                LET view == SeqRange(ViewOf(redis, footprints[a].user_id))
                IN  /\ <<footprints[b].owner_id, footprints[b].created_at>> \in view
                    /\ <<footprints[a].owner_id, footprints[a].created_at>> \notin view

\* ------------------------------------------------------ what a page shows
Rendering(w) == wk[w].pc = "render"

\* C5: no answer of FetchFootprintsCache holds the same visitor twice.
C5_QueryNoDuplicateVisitor ==
    \A w \in Workers : Rendering(w) =>
        \A i \in 1..Len(wk[w].resp), j \in 1..Len(wk[w].resp) :
            i # j => wk[w].resp[i].OwnerID # wk[w].resp[j].OwnerID

\* The cached timestamp (created_at of the member, the negated score) of the
\* i-th entry an answer was built from.
VisitAt(w, i) == UnixNano(Unmarshal(wk[w].fps[i]).CreatedAt)

\* C7 as stated: every answer of FetchFootprintsCache is strictly
\* descending by timestamp, no two consecutive entries at the same timestamp.
C7_StrictlyDescending ==
    \A w \in Workers : Rendering(w) =>
        \A i \in 1..(Len(wk[w].fps) - 1) : VisitAt(w, i) > VisitAt(w, i + 1)

\* C7 amended: every answer of FetchFootprintsCache is in non-increasing
\* order of the cached timestamp, and so are the dates it returns; entries
\* with equal timestamps can follow one another.
C7_NonIncreasing ==
    \A w \in Workers : Rendering(w) =>
        \A i \in 1..(Len(wk[w].fps) - 1) :
            /\ VisitAt(w, i) >= VisitAt(w, i + 1)
            /\ ~TimeLess(wk[w].resp[i].CreatedAt, wk[w].resp[i + 1].CreatedAt)

C7_Witness ==
    \E w \in Workers :
        /\ Rendering(w)
        /\ Len(wk[w].fps) >= 2
        /\ VisitAt(w, 1) = VisitAt(w, 2)

\* C9: LoadRedisAof replays the append-only file only when the flag
\* ISUCON5_REDIS_LOAD_AOF is supplied; without it recovery does not replay.
C9_ReplayOnlyWhenRequested ==
    \A w \in Workers : wk[w].pc = "gi_replay" => loadAofEnv # ""

\* C10: a markFootprint or FetchFootprintsCache request is handled only
\* after GetInitialize has completed once, and never while a GetInitialize
\* is at work.
Handling(w) ==
    wk[w].pc \in {"mf_select", "afc_zrange", "afc_zadd", "mf_render", "render"}
Recovering(w) == wk[w].pc \in {"gi_replay", "gi_users"}

C10_NoTrafficBeforeReady ==
    \A w \in Workers : Handling(w) =>
        /\ users
        /\ \A o \in Workers : ~Recovering(o)

\* ------------------------------------------------ recovery and its errors
\* GetInitialize calls LoadRedisAof (recovery by replay) when the variable
\* ISUCON5_REDIS_LOAD_AOF is empty.
ReplayMode == loadAofEnv = ""

\* The web application serving requests for /initialize only.
RecoveryNext ==
    \E w \in Workers :
        \/ GetInitialize(w)
        \/ GiReplay(w)
        \/ GiUsers(w)

RecoverySpec == WebInit /\ [][RecoveryNext]_vars

\* C11: when LoadRedisAof is called and appendonly.aof is absent the process
\* ends in log.Fatalf: the replay is never started without the file, the
\* worker that found the file missing has ended the process, and the users
\* map is never loaded (the application never becomes ready).
C11_AbsentLogIsFatal ==
    /\ \A w \in Workers : wk[w].pc = "gi_replay" => aof.exists
    /\ \A w \in Workers : wk[w].pc = "fatalf_aof" => ~alive /\ ~aof.exists
    /\ (ReplayMode /\ ~aof.exists) => ~users

C11_Witness ==
    \E w \in Workers :
        /\ wk[w].pc = "fatalf_aof"
        /\ ReplayMode /\ ~aof.exists
        /\ ~alive /\ ~users

\* The seed program over a table that is already filled, its statements and
\* commands failing or not.
SeedErrInit ==
    /\ \E rows \in UNION {[1..n -> VisitRows(0, Times)] : n \in 0..MaxRows} :
          /\ footprints = WithIds(rows)
          /\ nextId = Len(rows) + 1
    /\ redis = EmptyRedis
    /\ aof = [exists |-> FALSE, cmds |-> <<>>]
    /\ aofOn = FALSE
    /\ spc = "start"
    /\ hist = [db |-> <<>>, cache |-> EmptyRedis, valid |-> FALSE, rerun |-> FALSE]
    /\ WebOff

\* An error the program looks at: exec.Command(...).Run() of redis-cli
\* (log.Fatalf) or db.Query / rows.Scan (checkErr panics); main ends there.
SeedStepFails ==
    /\ spc \in {"start", "initialize", "appendonly_no", "load"}
    /\ spc' = "fatal"
    /\ UNCHANGED <<footprints, nextId, redis, aof, aofOn, hist, webVars>>

\* InitializeFootprints with errors the program does not look at.
SeedInitializeFootprintsErr ==
    /\ spc = "initialize"
    /\ \E scanned \in 0..Len(footprints) :
          \E errs \in SUBSET (1..scanned) :
             LET st == InitializeFootprintsErr(footprints, redis, scanned, errs)
             IN  /\ redis' = st.redis
                 /\ aof' = LogAof(aof, aofOn, st.log)
                 /\ spc' = IF st.fatal THEN "fatal" ELSE "appendonly_no"
    /\ UNCHANGED <<footprints, nextId, aofOn, hist, webVars>>

SeedErrNext ==
    \/ SeedAppendOnlyYes
    \/ SeedInitializeFootprintsErr
    \/ SeedAppendOnlyNo
    \/ SeedLoadRedisAof
    \/ SeedStepFails

SeedErrSpec == SeedErrInit /\ [][SeedErrNext]_vars

\* C12: the seed program ends normally (after LoadRedisAof) only with a
\* completely built cache: whenever a scan, a ZADD or the load failed it has
\* aborted, so at its normal end every view is canonical for the table.
C12_FailureAborts ==
    spc = "done" => \A p \in Users : IsCanonical(redis, footprints, p)

\* C13: InitializeFootprints writes into a flushed cache: when it has run,
\* the cache holds what it writes for the table starting from no entry at
\* all, and nothing that was cached before it started.
C13_RebuildStartsFromEmpty ==
    spc = "appendonly_no" =>
        redis = InitializeFootprints(hist.db, EmptyRedis).redis

\* C14: the replay of LoadRedisAof starts from a flushed cache: the step
\* that replays the file leaves in the cache exactly what the commands of
\* the file produce from no entry at all.
C14_ReplayStartsFromEmpty ==
    [][\A w \in Workers :
          (wk[w].pc = "gi_replay" /\ wk'[w].pc = "gi_users") =>
              redis' = ReplayAof(EmptyRedis, aof.cmds)]_vars

\* ------------------------------------------- LoadRedisAof, then a query
\* LoadRedisAof of the seed program called on any cache a rebuild leaves and
\* a file that is empty or holds the log of that rebuild.
\* FetchFootprintsCache then reads the cache with the limit of GetIndex.
LoadTables == UNION {[1..n -> VisitRows(0, Times)] : n \in 0..MaxRows}

LoadInit ==
    /\ \E rows \in LoadTables :
        \E logged \in {<<>>, rows} :
          /\ footprints = WithIds(rows)
          /\ nextId = Len(rows) + 1
          /\ redis = InitializeFootprints(WithIds(rows), EmptyRedis).redis
          /\ aof = [exists |-> TRUE,
                    cmds |-> InitializeFootprints(WithIds(logged), EmptyRedis).log]
    /\ aofOn = FALSE
    /\ spc = "load"
    /\ hist = [db |-> <<>>, cache |-> EmptyRedis, valid |-> FALSE, rerun |-> FALSE]
    /\ WebOff

LoadQuery ==
    /\ spc = "done"
    /\ \E userId \in Users : wk' = [wk EXCEPT ![1] = Fetched(userId, 10, redis)]
    /\ UNCHANGED <<footprints, nextId, redis, aof, aofOn, seedVars, alive,
                   users, loadAofEnv>>

LoadNext == SeedLoadRedisAof \/ LoadQuery

LoadSpec == LoadInit /\ [][LoadNext]_vars

\* C15: after the flushall and the replay of an empty file by LoadRedisAof,
\* FetchFootprintsCache(p, 10) is the empty sequence for every profile p;
\* an answer read then is empty.
C15_EmptyLogEmptyViews ==
    (spc = "done" /\ aof.cmds = <<>>) =>
        /\ \A p \in Users : FetchFootprintsCache(redis, p, 10) = <<>>
        /\ \A w \in Workers : Rendering(w) => wk[w].resp = <<>>

C15_Witness ==
    /\ spc = "done"
    /\ aof.cmds = <<>>
    /\ footprints # <<>>
    /\ \E w \in Workers :
          /\ Rendering(w)
          /\ \E i \in 1..Len(footprints) : footprints[i].user_id = wk[w].userId

\* --------------------------------------------------- markFootprint's errors
\* A worker between the ZRANGE and the ZADD of AddFootprintCache.
InAddFootprintCache(w) == wk[w].pc = "afc_zadd"

\* C16: the ZRANGE, maximum and ZADD of AddFootprintCache are serialized per
\* profile: no two workers are between their ZRANGE and their ZADD for the
\* same profile at the same time.
C16_SerializedPerProfile ==
    \A a \in Workers, b \in Workers :
        (a # b /\ InAddFootprintCache(a) /\ InAddFootprintCache(b)) =>
            wk[a].footprint.UserID # wk[b].footprint.UserID

\* ------------------------------------------- members that do not decode
\* AddFootprintCache and FetchFootprintsCache on a cache into which another
\* client of Redis has written a member that is not the JSON of a Footprint.
Undecodable(cache) == UNION {{e \in cache[k] : ~Decodable(e.member)} : k \in Keys}

ForeignZAdd ==
    /\ alive
    /\ Cardinality(Undecodable(redis)) < MaxInserts
    /\ \E row \in VisitRows(0, Times) :
          LET fp == VisitFootprint(row)
              cmd == ZAddCmd(fp.UserID, -UnixNano(fp.CreatedAt), Cut(Marshal(fp)))
          IN  /\ redis' = [redis EXCEPT ![cmd.key] = ZAdd(@, cmd.score, cmd.member)]
              /\ aof' = LogAof(aof, aofOn, <<cmd>>)
    /\ UNCHANGED <<footprints, nextId, aofOn, seedVars, webVars>>

DecodeNext == ApplyVisit \/ ApplyQuery \/ ForeignZAdd

DecodeSpec == ApplyInit /\ [][DecodeNext]_vars

\* C17: an answer of FetchFootprintsCache leaves out every member that does
\* not decode and holds the decoded others, in the order ZRANGE gave them.
C17_UndecodableSkipped ==
    \A w \in Workers : Rendering(w) =>
        wk[w].resp = FetchLoop(SelectSeq(wk[w].fps, Decodable), 1)

\* C18: FetchFootprintsCache never carries a failure to its caller: when
\* its ZRANGE fails the request goes on with an answer (possibly empty) and
\* the process keeps running, so no worker ends the process from inside
\* FetchFootprintsCache.
C18_FetchNeverFatal ==
    \A w \in Workers : wk[w].pc # "fatalf_fetch"

\* C19: a failure inside markFootprint or AddFootprintCache is not shown to
\* the user and does not stop the process: no request that ran markFootprint
\* is answered with status 500, and no worker ends the process from inside
\* AddFootprintCache.
C19_MarkFootprintFailsSilently ==
    \A w \in Workers : wk[w].pc \notin {"http500", "fatalf_zrange", "fatalf_marshal"}

\* C20: when markFootprint has returned without error, the footprint it
\* handed to AddFootprintCache carries the created_at of the row it had just
\* inserted, and the view of the profile holds an entry of the visitor at
\* that created_at or later.
C20_AppliesTheInsertedRow ==
    \A w \in Workers : wk[w].pc = "mf_render" =>
        LET row == wk[w].inserted
            view == ViewOf(redis, row.user_id)
        IN  /\ wk[w].footprint.CreatedAt = ScanTime(row.created_at)
            /\ \E i \in 1..Len(view) :
                   /\ view[i][1] = row.owner_id
                   /\ view[i][2] >= row.created_at

\* ------------------------------------------------- what markFootprint writes
\* C21: markFootprint records nothing when the visitor is the owner of the
\* profile: no row it inserted, no footprint it hands to AddFootprintCache
\* and no member of a view has the visitor equal to the profile.
C21_NoSelfVisit ==
    /\ \A i \in 1..Len(footprints) :
           footprints[i].id > SeedMaxId => footprints[i].user_id # footprints[i].owner_id
    /\ \A w \in Workers :
           wk[w].pc \in {"mf_select", "afc_zrange", "afc_zadd", "mf_render"} =>
               wk[w].footprint.UserID # wk[w].footprint.OwnerID
    /\ \A k \in Keys : \A e \in redis[k] :
           Unmarshal(e.member).UserID # Unmarshal(e.member).OwnerID

C21_Witness ==
    \E w \in Workers :
        /\ wk[w].pc = "mf_skip"
        /\ users
        /\ \A i \in 1..Len(footprints) : footprints[i].id <= SeedMaxId

\* ------------------------------- AddFootprintCache on the view of a profile
\* AddFootprintCache called again and again for one profile, whose view
\* InitializeFootprints has built from the rows of the table: each call is
\* for any visitor and any created_at, the arguments of an earlier call
\* included (the SELECT of markFootprint can return the same row again).
\* hist keeps the last two rows applied and the cache before the last call.
UpsertInit ==
    /\ \E p \in Users :
          \E rows \in UNION {[1..n -> {r \in VisitRows(0, Times) : r.user_id = p}] :
                                n \in 0..MaxInserts} :
             /\ footprints = WithIds(rows)
             /\ nextId = Len(rows) + 1
             /\ redis = InitializeFootprints(WithIds(rows), EmptyRedis).redis
             /\ hist = [profile |-> p, n |-> 0, arg |-> Row(0, 0, 0, 0),
                        prev |-> Row(0, 0, 0, 0), before |-> EmptyRedis]
    /\ aof = [exists |-> FALSE, cmds |-> <<>>]
    /\ aofOn = FALSE
    /\ spc = "off"
    /\ WebOff

UpsertApply ==
    /\ alive
    /\ hist.n < MaxRows
    /\ \E row \in {r \in VisitRows(0, AllTimes) : r.user_id = hist.profile} :
          LET st == AddFootprintCache(redis, VisitFootprint(row))
          IN  /\ redis' = st.redis
              /\ aof' = LogAof(aof, aofOn, st.log)
              /\ alive' = ~st.fatal
              /\ hist' = [hist EXCEPT !.n = @ + 1, !.arg = row, !.prev = hist.arg,
                                      !.before = redis]
    /\ UNCHANGED <<footprints, nextId, aofOn, spc, users, loadAofEnv, wk>>

UpsertSpec == UpsertInit /\ [][UpsertApply]_vars

\* C22: AddFootprintCache called a second time with the arguments of the
\* call before it leaves the cache, members and scores, as that call left it.
C22_UpsertIdempotent ==
    (alive /\ hist.n >= 2 /\ hist.arg = hist.prev) => redis = hist.before

C22_Witness ==
    /\ alive
    /\ hist.n >= 2
    /\ hist.arg = hist.prev
    /\ footprints # <<>>
    /\ Cardinality(redis[hist.profile]) >= 2

\* The timestamps a view holds for a visitor, and the latest of them (-1
\* when the visitor has no entry, below every created_at).
CachedFor(cache, p, v) ==
    {ViewOf(cache, p)[i][2] : i \in {j \in 1..Len(ViewOf(cache, p)) : ViewOf(cache, p)[j][1] = v}}

LatestCached(cache, p, v) ==
    IF CachedFor(cache, p, v) = {} THEN -1
    ELSE CHOOSE t \in CachedFor(cache, p, v) : \A o \in CachedFor(cache, p, v) : o <= t

\* C23: after AddFootprintCache(profile, visitor, t) the view holds for the
\* visitor one entry and no more, at the later of t and the latest
\* timestamp the view held for the visitor before the call.
C23_UpsertReplaces ==
    (alive /\ hist.n >= 1) =>
        LET p == hist.profile
            v == hist.arg.owner_id
            t == hist.arg.created_at
            old == LatestCached(hist.before, p, v)
        IN  /\ CachedFor(redis, p, v) = {IF old > t THEN old ELSE t}
            /\ Cardinality({e \in redis[p] : Unmarshal(e.member).OwnerID = v}) = 1

\* C25: AddFootprintCache with a created_at not later than the timestamp
\* the view already holds for the visitor leaves the cache, members and
\* scores, as it was.
C25_OlderVisitChangesNothing ==
    (alive /\ hist.n >= 1
           /\ hist.arg.created_at <=
                  LatestCached(hist.before, hist.profile, hist.arg.owner_id)) =>
        redis = hist.before

\* C26: in every member of a view updated_at is the instant created_at is,
\* whether InitializeFootprints or AddFootprintCache wrote it.
C26_UpdatedAtIsCreatedAt ==
    \A k \in Keys : \A e \in redis[k] :
        Unmarshal(e.member).UpdatedAt = Unmarshal(e.member).CreatedAt

\* ------------------------------------------------- ties inside one view
\* Visitor ids on both sides of a change in the number of decimal digits;
\* the seeded users table holds ids 1..5000.
TieVisitors == {9, 10, 11}

TieRows(p) == {Row(0, p, o, t) : <<o, t>> \in TieVisitors \X Times}

\* A view as InitializeFootprints builds it from visits of TieVisitors to
\* one profile.
TieInit ==
    /\ \E p \in Users :
          \E rows \in UNION {[1..n -> TieRows(p)] : n \in 0..MaxRows} :
             /\ footprints = WithIds(rows)
             /\ nextId = Len(rows) + 1
             /\ redis = InitializeFootprints(WithIds(rows), EmptyRedis).redis
             /\ hist = [profile |-> p, n |-> 0]
    /\ aof = [exists |-> FALSE, cmds |-> <<>>]
    /\ aofOn = FALSE
    /\ spc = "off"
    /\ WebOff

\* markFootprint's insert followed by AddFootprintCache for the new row.
TieVisit ==
    /\ alive
    /\ hist.n < MaxInserts
    /\ \E row \in TieRows(hist.profile) :
          LET st == AddFootprintCache(redis, VisitFootprint(row))
          IN  /\ row.created_at >= Latest(footprints)
              /\ footprints' = Append(footprints, [row EXCEPT !.id = nextId])
              /\ redis' = st.redis
              /\ aof' = LogAof(aof, aofOn, st.log)
              /\ alive' = ~st.fatal
    /\ nextId' = nextId + 1
    /\ hist' = [hist EXCEPT !.n = @ + 1]
    /\ UNCHANGED <<aofOn, spc, users, loadAofEnv, wk>>

TieQuery ==
    /\ alive
    /\ \E limit \in QueryLimits :
          wk' = [wk EXCEPT ![1] = Fetched(hist.profile, limit, redis)]
    /\ UNCHANGED <<footprints, nextId, redis, aof, aofOn, seedVars, alive,
                   users, loadAofEnv>>

TieNext == TieVisit \/ TieQuery

TieSpec == TieInit /\ [][TieNext]_vars

\* C24: in every answer of FetchFootprintsCache, of two consecutive entries
\* with the same timestamp the first has the numerically smaller visitor id.
C24_TiesByVisitorId ==
    \A w \in Workers : Rendering(w) =>
        \A i \in 1..(Len(wk[w].fps) - 1) :
            VisitAt(w, i) = VisitAt(w, i + 1) =>
                Unmarshal(wk[w].fps[i]).OwnerID < Unmarshal(wk[w].fps[i + 1]).OwnerID

\* A row of the table for the visit a member shows.
HeldInStore(rows, m) ==
    \E i \in 1..Len(rows) :
        /\ rows[i].user_id = Unmarshal(m).UserID
        /\ rows[i].owner_id = Unmarshal(m).OwnerID
        /\ ScanTime(rows[i].created_at) = Unmarshal(m).CreatedAt

\* C27: whenever no request is in progress, every entry of every cached
\* view has a row in table footprints with the same profile, visitor and
\* timestamp.
C27_CacheBackedByStore ==
    (alive /\ AllIdle) =>
        \A k \in Keys : \A e \in redis[k] : HeldInStore(footprints, e.member)

SqlGroupRows(rows, u, o, d) ==
    {r \in SeqRange(rows) :
        r.user_id = u /\ r.owner_id = o /\ DateOf(ScanTime(r.created_at)) = d}

\* SELECT user_id, owner_id, DATE(created_at) AS date, MAX(created_at) AS
\* updated ... WHERE user_id = u GROUP BY ...: one Footprint per group,
\* scanned into UserID, OwnerID, CreatedAt, UpdatedAt.
SqlGroups(rows, u) ==
    {[UserID |-> u, OwnerID |-> r.owner_id,
      CreatedAt |-> DateOf(ScanTime(r.created_at)),
      UpdatedAt |-> ScanTime(CHOOSE t \in {x.created_at : x \in SqlGroupRows(rows, u, r.owner_id, DateOf(ScanTime(r.created_at)))} :
                        \A x \in SqlGroupRows(rows, u, r.owner_id, DateOf(ScanTime(r.created_at))) : x.created_at <= t)] :
        r \in {x \in SeqRange(rows) : x.user_id = u}}

\* ORDER BY updated DESC LIMIT n: every sequence the server may answer,
\* groups with the same updated in any order.
SqlFootprints(rows, u, n) ==
    LET G == SqlGroups(rows, u)
        k == IF Cardinality(G) < n THEN Cardinality(G) ELSE n
    IN  {s \in [1..k -> G] :
            /\ \A i \in 1..k, j \in 1..k : i < j =>
                   /\ s[i] # s[j]
                   /\ ~TimeLess(s[i].UpdatedAt, s[j].UpdatedAt)
            /\ \A g \in G \ SeqRange(s) : \A i \in 1..k :
                   ~TimeLess(s[i].UpdatedAt, g.UpdatedAt)}

\* A table of visits on one day or several, and the cache
\* InitializeFootprints builds from it.
SqlInit ==
    /\ \E rows \in UNION {[1..n -> VisitRows(0, AllTimes)] : n \in 0..MaxRows} :
          /\ footprints = WithIds(rows)
          /\ nextId = Len(rows) + 1
          /\ redis = InitializeFootprints(WithIds(rows), EmptyRedis).redis
    /\ aof = [exists |-> FALSE, cmds |-> <<>>]
    /\ aofOn = FALSE
    /\ spc = "off"
    /\ hist = [db |-> <<>>, cache |-> EmptyRedis, valid |-> FALSE, rerun |-> FALSE]
    /\ WebOff

\* GetFootprints and GetIndex: FetchFootprintsCache(user.ID, 50 or 10).
SqlQuery ==
    /\ alive
    /\ \E userId \in Users, limit \in QueryLimits :
          wk' = [wk EXCEPT ![1] = Fetched(userId, limit, redis)]
    /\ UNCHANGED <<footprints, nextId, redis, aof, aofOn, seedVars, alive,
                   users, loadAofEnv>>

SqlSpec == SqlInit /\ [][SqlQuery]_vars

\* C29: the answer of FetchFootprintsCache over the cache InitializeFootprints
\* built is an answer the SQL aggregation can give for the same table, user
\* and limit: the same Footprints in the same order.
C29_CacheAnswersLikeSql ==
    \A w \in Workers : Rendering(w) =>
        wk[w].resp \in SqlFootprints(footprints, wk[w].userId, wk[w].limit)

\* ------------------------------------------------------------ POST /login
\* The users and salts tables: user u has e-mail address u, password u and
\* salt u.  Address 0 is the empty string, the Email of the zero User;
\* address NumUsers + 1 belongs to nobody.
EmailOf(u) == u
PasswordOf(u) == u
SaltOf(u) == u
Emails == 0..(NumUsers + 1)
Passwords == {0} \cup Users

\* fmt.Sprintf("%x", sha512.Sum512(passwd + salt)), taken as free of
\* collisions.
Hash(passwd, salt) == <<passwd, salt>>

PassHashOf(u) == IF u = 0 THEN <<>> ELSE Hash(PasswordOf(u), SaltOf(u))

\* The orders in which range may walk the users map: every order of its
\* keys; no key while the map is nil.
MapOrders ==
    IF users
    THEN {o \in [1..NumUsers -> Users] : \A i \in 1..NumUsers, j \in 1..NumUsers : i # j => o[i] # o[j]}
    ELSE {<<>>}

\* for _, user = range users { if user.Email == email { break } }: the id
\* of the User that variable user holds after the loop.
RECURSIVE AuthLoop(_, _, _, _)
AuthLoop(order, i, email, user) ==
    IF i > Len(order) THEN user
    ELSE IF EmailOf(order[i]) = email THEN order[i]
    ELSE AuthLoop(order, i + 1, email, order[i])

\* The web application with one browser; hist.session is the user_id of its
\* session cookie (0: none), the other fields record the last request.
AuthInit ==
    /\ footprints = <<>>
    /\ nextId = SeedMaxId + 1
    /\ redis = EmptyRedis
    /\ aof = [exists |-> FALSE, cmds |-> <<>>]
    /\ aofOn = FALSE
    /\ spc = "off"
    /\ hist = [session |-> 0, before |-> 0, op |-> "", email |-> 0, passwd |-> 0,
               order |-> <<>>, status |-> 0]
    /\ alive = TRUE
    /\ users = FALSE
    /\ loadAofEnv = "1"
    /\ wk = [w \in Workers |-> IdleWorker]

\* PostLogin: authenticate, then the redirect; a panic of checkErr is
\* answered 500 by myHandler and the session is not saved.
PostLogin ==
    /\ alive
    /\ \E email \in Emails, passwd \in Passwords, order \in MapOrders :
          LET user == AuthLoop(order, 1, email, 0)
              ok == /\ user # 0
                    /\ Hash(passwd, SaltOf(user)) = PassHashOf(user)
          IN  hist' = [session |-> IF ok THEN user ELSE hist.session,
                       before |-> hist.session, op |-> "login",
                       email |-> email, passwd |-> passwd, order |-> order,
                       status |-> IF ok THEN 303 ELSE 500]
    /\ UNCHANGED <<footprints, nextId, redis, aof, aofOn, spc, webVars>>

\* GetLogout: user_id is deleted from the session.
GetLogout ==
    /\ alive
    /\ hist.session # 0
    /\ hist' = [hist EXCEPT !.session = 0, !.before = hist.session, !.op = "logout",
                            !.status = 302]
    /\ UNCHANGED <<footprints, nextId, redis, aof, aofOn, spc, webVars>>

AuthNext ==
    \/ PostLogin
    \/ GetLogout
    \/ \E w \in Workers : GetInitialize(w) \/ GiUsers(w)

AuthSpec == AuthInit /\ [][AuthNext]_vars

\* C30: a login stores in the session only the id of the user whose e-mail
\* address was given and whose salted password hash matches; a login with
\* an address no user has is answered with the authentication error and
\* leaves the session as it was.
C30_LoginOnlyByOwnEmail ==
    hist.op = "login" =>
        /\ hist.status = 303 =>
               /\ hist.session \in Users
               /\ EmailOf(hist.session) = hist.email
               /\ Hash(hist.passwd, SaltOf(hist.session)) = PassHashOf(hist.session)
        /\ (\A u \in Users : EmailOf(u) # hist.email) =>
               /\ hist.status = 500
               /\ hist.session = hist.before

====
